---- MODULE Spec2Model ----
(***************************************************************************)
(* Model of the audiobook research tool (src/app/page.js): the React       *)
(* component AudiobookResearchTool, its state, the asynchronous handlers   *)
(* requestAccessToken and handleSearch, and the metrics handleSearch       *)
(* derives from each search response.                                      *)
(*                                                                         *)
(* Strings the code trims or splits are sequences of one-character         *)
(* strings, so that trim() and split('\n') are computed, not assumed.      *)
(* A JavaScript value that may be undefined is an option: None or Some(v). *)
(***************************************************************************)
EXTENDS Integers, Sequences, FiniteSets, TLC

\* ------------------------------------------------------------------------
\* JavaScript values
\* ------------------------------------------------------------------------

None == <<>>

Some(v) == <<v>>

IsSome(o) == o # <<>>

Min(a, b) == IF a <= b THEN a ELSE b

\* ------------------------------------------------------------------------
\* Strings: String.prototype.trim, String.prototype.split('\n')
\* ------------------------------------------------------------------------

WhiteSpace == {" ", "\t", "\n"}

RECURSIVE TrimStart(_)
TrimStart(s) ==
    IF s # <<>> /\ Head(s) \in WhiteSpace THEN TrimStart(Tail(s)) ELSE s

RECURSIVE TrimEnd(_)
TrimEnd(s) ==
    IF s # <<>> /\ s[Len(s)] \in WhiteSpace
    THEN TrimEnd(SubSeq(s, 1, Len(s) - 1))
    ELSE s

Trim(s) == TrimEnd(TrimStart(s))

\* The positions of the line breaks of a text, in increasing order.
Breaks(s) == SelectSeq([k \in 1..Len(s) |-> k], LAMBDA k : s[k] = "\n")

\* s.split('\n'): the pieces between the line breaks; '' splits into [''].
SplitLines(s) ==
    LET br == Breaks(s)
        lo(j) == IF j = 1 THEN 1 ELSE br[j - 1] + 1
        hi(j) == IF j = Len(br) + 1 THEN Len(s) ELSE br[j] - 1
    IN  [j \in 1..(Len(br) + 1) |-> SubSeq(s, lo(j), hi(j))]

NonEmpty(k) == Len(k) > 0

\* keywords.split('\n').map(k => k.trim()).filter(k => k.length > 0)
KeywordList(text) ==
    LET lines == SplitLines(text)
    IN  SelectSeq([j \in 1..Len(lines) |-> Trim(lines[j])], NonEmpty)

\* A string is truthy when it is not empty.
Truthy(s) == s # <<>>

\* ------------------------------------------------------------------------
\* Numbers: JavaScript numbers are IEEE-754 binary64 values.  A positive
\* double is m * 2^e with a significand m of 53 binary digits.  The
\* significand does not fit a machine integer of the checker, so it is kept
\* as a sequence of limbs, least significant first, in base 2^12.
\* ------------------------------------------------------------------------

SignificandBits == 53

LimbBits == 12

RECURSIVE Pow2(_)
Pow2(k) == IF k = 0 THEN 1 ELSE 2 * Pow2(k - 1)

Base == Pow2(LimbBits)

RECURSIVE LimbsOf(_)
LimbsOf(n) == IF n = 0 THEN <<>> ELSE <<n % Base>> \o LimbsOf(n \div Base)

RECURSIVE NatOfLimbs(_)
NatOfLimbs(x) == IF x = <<>> THEN 0 ELSE Head(x) + Base * NatOfLimbs(Tail(x))

\* x without its high zero limbs.
RECURSIVE Normalize(_)
Normalize(x) ==
    IF x # <<>> /\ x[Len(x)] = 0
    THEN Normalize(SubSeq(x, 1, Len(x) - 1))
    ELSE x

\* The number of binary digits of a natural number.
RECURSIVE BitLen(_)
BitLen(n) == IF n = 0 THEN 0 ELSE 1 + BitLen(n \div 2)

BigBitLen(x) ==
    LET y == Normalize(x)
    IN  IF y = <<>> THEN 0 ELSE (Len(y) - 1) * LimbBits + BitLen(y[Len(y)])

\* x * c + carry for a natural c below 2^18.
RECURSIVE MulLimbs(_, _, _)
MulLimbs(x, c, carry) ==
    IF x = <<>> THEN LimbsOf(carry)
    ELSE LET v == Head(x) * c + carry
         IN  <<v % Base>> \o MulLimbs(Tail(x), c, v \div Base)

\* Quotient and remainder of x by a natural d, 0 < d <= 2^18: long division
\* from the highest limb down.
RECURSIVE DivLimbs(_, _)
DivLimbs(x, d) ==
    IF x = <<>> THEN [q |-> <<>>, r |-> 0]
    ELSE LET hi == DivLimbs(Tail(x), d)
             v == hi.r * Base + Head(x)
         IN  [q |-> <<v \div d>> \o hi.q, r |-> v % d]

RECURSIVE BigIncrement(_)
BigIncrement(x) ==
    IF x = <<>> THEN <<1>>
    ELSE IF Head(x) + 1 < Base THEN <<Head(x) + 1>> \o Tail(x)
    ELSE <<0>> \o BigIncrement(Tail(x))

\* x * 2^k.
ShiftLeft(x, k) ==
    [j \in 1..(k \div LimbBits) |-> 0] \o MulLimbs(x, Pow2(k % LimbBits), 0)

\* floor(x / 2^k).
ShiftRightFloor(x, k) ==
    LET drop == k \div LimbBits
    IN  IF drop >= Len(x) THEN <<>>
        ELSE DivLimbs(SubSeq(x, drop + 1, Len(x)), Pow2(k % LimbBits)).q

\* Round x / d to the nearest integer, a tie going to the even one (the
\* rounding of every binary64 operation).
RoundHalfEven(x, d) ==
    LET qr == DivLimbs(x, d)
        q == Normalize(qr.q)
        odd == q # <<>> /\ q[1] % 2 = 1
    IN  IF 2 * qr.r > d \/ (2 * qr.r = d /\ odd) THEN BigIncrement(q) ELSE q

\* The exponent of the leading binary digit of a / b: the e with
\* 2^e <= a / b < 2^(e + 1).
RECURSIVE LeadExponent(_, _)
LeadExponent(a, b) ==
    IF a < b THEN LeadExponent(2 * a, b) - 1
    ELSE IF a >= 2 * b THEN LeadExponent(a, 2 * b) + 1
    ELSE 0

\* The double a / b for integers 0 < a, b < 2^18: one correctly rounded
\* division.
DoubleDiv(a, b) ==
    LET e == LeadExponent(a, b)
        scale == (SignificandBits - 1) - e
    IN  [m |-> RoundHalfEven(ShiftLeft(LimbsOf(a), scale), b), e |-> -scale]

\* The double x * c for an integer 0 < c < 2^18: one correctly rounded
\* product.
DoubleMulSmall(x, c) ==
    LET p == MulLimbs(x.m, c, 0)
        s == BigBitLen(p) - SignificandBits
    IN  IF s <= 0 THEN [m |-> p, e |-> x.e]
        ELSE [m |-> RoundHalfEven(p, Pow2(s)), e |-> x.e + s]

\* Math.round of a positive double with a fraction part (e < 0): the
\* nearest integer, a tie going up, that is floor(x + 1/2).
MathRound(x) ==
    (NatOfLimbs(ShiftRightFloor(x.m, (-x.e) - 1)) + 1) \div 2

\* Math.round(a / b) for integers a >= 0, b > 0.  The division is one
\* correctly rounded operation and every k + 1/2 is a double, so the double
\* a / b is at least k + 1/2 exactly when the quotient is.
RoundQuotient(a, b) == (2 * a + b) \div (2 * b)

\* ------------------------------------------------------------------------
\* The metrics handleSearch derives from one search response
\* ------------------------------------------------------------------------

DefaultPopularity == 50

MaxInterest == 100

InterestDivisor == 5

\* book.popularity || 50: undefined and 0 are both falsy.
PopularityOf(book) ==
    IF IsSome(book.popularity) /\ book.popularity[1] # 0
    THEN book.popularity[1]
    ELSE DefaultPopularity

\* audiobooks.reduce((sum, book) => sum + (book.popularity || 50), 0)
RECURSIVE SumPopularity(_)
SumPopularity(audiobooks) ==
    IF audiobooks = <<>> THEN 0
    ELSE PopularityOf(Head(audiobooks)) + SumPopularity(Tail(audiobooks))

\* audiobooks.length > 0 ? Math.round(sum / audiobooks.length) : 50
AvgPopularity(audiobooks) ==
    IF Len(audiobooks) > 0
    THEN RoundQuotient(SumPopularity(audiobooks), Len(audiobooks))
    ELSE DefaultPopularity

\* The estimate without Math.min.
EstimatedTrendsInterest_Uncapped(count) ==
    RoundQuotient(count, InterestDivisor)

\* Math.min(100, Math.round(count / 5))
EstimatedTrendsInterest(count) ==
    Min(MaxInterest, RoundQuotient(count, InterestDivisor))

\* data.audiobooks?.items || []
ItemsOf(data) == IF IsSome(data.items) THEN data.items[1] ELSE <<>>

\* data.audiobooks?.total || 0
TotalOf(data) == IF IsSome(data.total) THEN data.total[1] ELSE 0

\* A find that passes over the failed results.
Find_SkipsFailed(snapshot, keyword) ==
    LET hits == {j \in 1..Len(snapshot) :
                     snapshot[j].keyword = keyword /\ ~IsSome(snapshot[j].error)}
    IN  IF hits = {} THEN None
        ELSE Some(snapshot[CHOOSE j \in hits : \A h \in hits : j <= h])

\* previousResults.find(r => r.keyword === keyword): the first match, or
\* undefined.
Find(snapshot, keyword) ==
    LET hits == {j \in 1..Len(snapshot) : snapshot[j].keyword = keyword}
    IN  IF hits = {} THEN None
        ELSE Some(snapshot[CHOOSE j \in hits : \A h \in hits : j <= h])

\* prevResult ? avgPopularity - prevResult.avgPopularity : 0
PopularityTrend(avgPopularity, prevResult) ==
    IF IsSome(prevResult) THEN avgPopularity - prevResult[1].avgPopularity ELSE 0

\* prevResult ? count - prevResult.audiobooks : 0
SupplyTrend(count, prevResult) ==
    IF IsSome(prevResult) THEN count - prevResult[1].audiobooks ELSE 0

\* The object pushed for a keyword whose response was read.  Every result
\* of the model carries the same fields: one the object lacks is None.
\* (x, y and size repeat audiobooks, estimatedTrendsInterest and
\* avgPopularity * 2 for the chart; timestamp is the calendar date.)
OkResult(keyword, data, previous) ==
    LET audiobooks == ItemsOf(data)
        count == TotalOf(data)
        avgPopularity == AvgPopularity(audiobooks)
        prevResult == Find(previous, keyword)
    IN  [keyword |-> keyword,
         audiobooks |-> count,
         avgPopularity |-> avgPopularity,
         estimatedTrendsInterest |-> EstimatedTrendsInterest(count),
         popularityTrend |-> Some(PopularityTrend(avgPopularity, prevResult)),
         supplyTrend |-> Some(SupplyTrend(count, prevResult)),
         error |-> None]

FailedCount == -1

\* A catch block that zeroes the count like the other numbers.
FailedResult_ZeroCount(keyword, message) ==
    [keyword |-> keyword,
     audiobooks |-> 0,
     avgPopularity |-> 0,
     estimatedTrendsInterest |-> 0,
     popularityTrend |-> None,
     supplyTrend |-> None,
     error |-> Some(message)]

\* The object pushed by the catch block: it has no popularityTrend and no
\* supplyTrend.
FailedResult(keyword, message) ==
    [keyword |-> keyword,
     audiobooks |-> FailedCount,
     avgPopularity |-> 0,
     estimatedTrendsInterest |-> 0,
     popularityTrend |-> None,
     supplyTrend |-> None,
     error |-> Some(message)]

\* r.error as a condition: set and not the empty string.
HasError(r) == IsSome(r.error) /\ r.error[1] # ""

PercentScale == 100

\* Math.round(((i + 1) / keywordList.length) * 100): a division, then a
\* product, each rounded to a double, then Math.round.
ProgressOf(done, total) ==
    MathRound(DoubleMulSmall(DoubleDiv(done, total), PercentScale))

\* ------------------------------------------------------------------------
\* The values the component derives from the results at every render
\* ------------------------------------------------------------------------

\* The ratio to the supply itself, without the 1 added to it.
OpportunityOf_WithoutPlusOne(demand, supply) ==
    IF supply = 0 THEN 0 ELSE RoundQuotient(PercentScale * demand, supply)

\* The product cut off instead of rounded.
OpportunityOf_Truncated(demand, supply) == (PercentScale * demand) \div (supply + 1)

\* Math.round(demand / (supply + 1) * 100): a division, then a product,
\* each rounded to a double, then Math.round.  0 / (supply + 1) is 0.
OpportunityOf(demand, supply) ==
    IF demand = 0 THEN 0
    ELSE MathRound(DoubleMulSmall(DoubleDiv(demand, supply + 1), PercentScale))

\* getOpportunityScore: null for a result with an error.
GetOpportunityScore(item) ==
    IF HasError(item) THEN None
    ELSE Some(OpportunityOf(item.estimatedTrendsInterest, item.audiobooks))

HighBand == 50

MidBand == 20

\* The fill of a result's cell in the scatter chart.
ScoreColor(opportunity) ==
    IF opportunity > HighBand THEN "#22c55e"
    ELSE IF opportunity > MidBand THEN "#f59e0b"
    ELSE "#ef4444"

NoScore == -1

\* getOpportunityScore(a) || -1: null and 0 are both falsy.
ScoreOrDefault(item) ==
    LET score == GetOpportunityScore(item)
    IN  IF IsSome(score) /\ score[1] # 0 THEN score[1] ELSE NoScore

\* An insertion that puts the new index before the entries that compare
\* equal to it.
InsertByScore_BeforeEquals(order, j, items) ==
    LET ahead == {p \in 1..Len(order) :
                      ScoreOrDefault(items[order[p]]) > ScoreOrDefault(items[j])}
        k == Cardinality(ahead)
    IN  SubSeq(order, 1, k) \o <<j>> \o SubSeq(order, k + 1, Len(order))

\* One step of the stable sort with the comparator scoreB - scoreA: index
\* j goes after every entry whose score is not lower than its own.
InsertByScore(order, j, items) ==
    LET ahead == {p \in 1..Len(order) :
                      ScoreOrDefault(items[order[p]]) >= ScoreOrDefault(items[j])}
        k == Cardinality(ahead)
    IN  SubSeq(order, 1, k) \o <<j>> \o SubSeq(order, k + 1, Len(order))

\* The positions of the first n items in the order Array.prototype.sort
\* (stable) leaves them in.
RECURSIVE SortOrder(_, _)
SortOrder(items, n) ==
    IF n = 0 THEN <<>>
    ELSE InsertByScore(SortOrder(items, n - 1), n, items)

\* [...results].sort((a, b) => scoreB - scoreA)
SortedByOpportunity(items) ==
    LET order == SortOrder(items, Len(items))
    IN  [p \in 1..Len(items) |-> items[order[p]]]

IsValid(r) == ~HasError(r)

TopCount == 10

\* sortedByOpportunity.filter(r => !r.error).slice(0, 10)
TopOpportunities(items) ==
    LET valid == SelectSeq(SortedByOpportunity(items), IsValid)
    IN  SubSeq(valid, 1, Min(TopCount, Len(valid)))

\* results.filter(r => !r.error).length
ValidResults(items) == Len(SelectSeq(items, IsValid))

\* results.reduce((sum, r) => sum + (r.avgPopularity || 0), 0)
RECURSIVE SumAvgPopularity(_)
SumAvgPopularity(items) ==
    IF items = <<>> THEN 0
    ELSE Head(items).avgPopularity + SumAvgPopularity(Tail(items))

\* NaN, the Number that 0 / 0 gives; a Number that is one is Some(n).
NotANumber == <<>>

\* A summary that divides by the number of all results.
AvgPopularityScore_OverAllRows(items) ==
    IF Len(items) > 0
    THEN Some(RoundQuotient(SumAvgPopularity(items), Len(items)))
    ELSE Some(0)

\* avgPopularityScore: the sum divided by the number of results without an
\* error; 0 / 0 is NaN, and Math.round(NaN) is NaN.
AvgPopularityScore(items) ==
    IF Len(items) > 0
    THEN IF ValidResults(items) = 0
         THEN NotANumber
         ELSE Some(RoundQuotient(SumAvgPopularity(items), ValidResults(items)))
    ELSE Some(0)

\* ------------------------------------------------------------------------
\* downloadCSV.  A text is a sequence of pieces: the characters of a
\* keyword, the digits of a number, and each literal or error message as
\* one piece.
\* ------------------------------------------------------------------------

DigitChars == <<"0", "1", "2", "3", "4", "5", "6", "7", "8", "9">>

RECURSIVE DigitsOf(_)
DigitsOf(n) ==
    IF n < 10 THEN <<DigitChars[n + 1]>>
    ELSE DigitsOf(n \div 10) \o <<DigitChars[(n % 10) + 1]>>

\* String(n) for an integer n.
NumberToString(n) ==
    IF n < 0 THEN <<"-">> \o DigitsOf(-n) ELSE DigitsOf(n)

\* trend > 0 ? '+' + trend : trend, as the template literal prints it;
\* an undefined trend prints as 'undefined'.
TrendCell(trend) ==
    IF ~IsSome(trend) THEN <<"undefined">>
    ELSE IF trend[1] > 0 THEN <<"+">> \o NumberToString(trend[1])
    ELSE NumberToString(trend[1])

\* A row that prints the numbers of a failed result too.
CsvRow_NumbersForFailed(r) ==
    <<r.keyword,
      NumberToString(r.audiobooks),
      NumberToString(r.avgPopularity),
      NumberToString(r.estimatedTrendsInterest),
      TrendCell(r.popularityTrend),
      TrendCell(r.supplyTrend),
      IF HasError(r) THEN <<r.error[1]>> ELSE <<"OK">> >>

\* The seven cells of the row of one result.
CsvRow(r) ==
    <<r.keyword,
      IF HasError(r) THEN <<"Error">> ELSE NumberToString(r.audiobooks),
      IF HasError(r) THEN <<"-">> ELSE NumberToString(r.avgPopularity),
      IF HasError(r) THEN <<"-">>
                     ELSE NumberToString(r.estimatedTrendsInterest),
      IF HasError(r) THEN <<"-">> ELSE TrendCell(r.popularityTrend),
      IF HasError(r) THEN <<"-">> ELSE TrendCell(r.supplyTrend),
      IF HasError(r) THEN <<r.error[1]>> ELSE <<"OK">> >>

\* results.map(r => [...])
CsvRows(items) == [j \in 1..Len(items) |-> CsvRow(items[j])]

CsvHeaders ==
    << <<"Keyword">>, <<"Audiobooks Found">>, <<"Avg Popularity">>,
       <<"Estimated Trends Interest">>, <<"Popularity Trend">>,
       <<"Supply Trend">>, <<"Status">> >>

\* cells.join(separator)
RECURSIVE JoinWith(_, _)
JoinWith(cells, separator) ==
    IF cells = <<>> THEN <<>>
    ELSE IF Len(cells) = 1 THEN cells[1]
    ELSE cells[1] \o <<separator>> \o JoinWith(Tail(cells), separator)

\* row.map(cell => `"${cell}"`).join(',')
CsvLine(row) ==
    JoinWith([c \in 1..Len(row) |-> <<"\"">> \o row[c] \o <<"\"">>], ",")

\* [headers.join(','), ...rows.map(...)]
CsvLines(items) ==
    <<JoinWith(CsvHeaders, ",")>> \o
        [j \in 1..Len(items) |-> CsvLine(CsvRows(items)[j])]

\* The text of the downloaded file.
CsvText(items) == JoinWith(CsvLines(items), "\n")

\* ------------------------------------------------------------------------
\* State
\* ------------------------------------------------------------------------

VARIABLES
    clientId,         \* useState(''): the Client ID field
    clientSecret,     \* useState(''): the Client Secret field
    accessToken,      \* useState(''): the stored bearer token
    keywords,         \* useState(''): the text of the keywords field
    results,          \* useState([]): the snapshot of the current run
    previousResults,  \* useState([]): the snapshot kept from the run before
    isSearching,      \* useState(false)
    progress,         \* useState(0)
    error,            \* useState('')
    showMatrix,       \* useState(false)
    tokenStatus,      \* useState('')
    tokenCall,        \* where the running requestAccessToken call waits
    search,           \* the running handleSearch call: its position and the
                      \* values it holds (its locals, and the state it read
                      \* from the render it was created in)
    requests,         \* the search requests issued by the current run
    responses,        \* how each of them was settled, in order
    runs              \* the number of runs started

reactVars ==
    <<clientId, clientSecret, accessToken, keywords, results, previousResults,
      isSearching, progress, error, showMatrix, tokenStatus>>

vars ==
    <<clientId, clientSecret, accessToken, keywords, results, previousResults,
      isSearching, progress, error, showMatrix, tokenStatus, tokenCall,
      search, requests, responses, runs>>

\* No handleSearch call is running.
NoSearch ==
    [pc |-> "idle", keywordList |-> <<>>, i |-> 0, searchResults |-> <<>>,
     data |-> None, previousResults |-> <<>>, accessToken |-> <<>>]

Init ==
    /\ clientId = <<>>
    /\ clientSecret = <<>>
    /\ accessToken = <<>>
    /\ keywords = <<>>
    /\ results = <<>>
    /\ previousResults = <<>>
    /\ isSearching = FALSE
    /\ progress = 0
    /\ error = ""
    /\ showMatrix = FALSE
    /\ tokenStatus = ""
    /\ tokenCall = "none"
    /\ search = NoSearch
    /\ requests = <<>>
    /\ responses = <<>>
    /\ runs = 0

\* ------------------------------------------------------------------------
\* The form: the fields and the buttons, each with its disabled condition
\* ------------------------------------------------------------------------

\* onChange of the Client ID field, disabled={isSearching || !!accessToken}
SetClientId(v) ==
    /\ ~(isSearching \/ Truthy(accessToken))
    /\ clientId' = v
    /\ UNCHANGED <<clientSecret, accessToken, keywords, results,
                   previousResults, isSearching, progress, error, showMatrix,
                   tokenStatus, tokenCall, search, requests, responses, runs>>

\* onChange of the Client Secret field
SetClientSecret(v) ==
    /\ ~(isSearching \/ Truthy(accessToken))
    /\ clientSecret' = v
    /\ UNCHANGED <<clientId, accessToken, keywords, results, previousResults,
                   isSearching, progress, error, showMatrix, tokenStatus,
                   tokenCall, search, requests, responses, runs>>

\* onChange of the keywords field, disabled={isSearching}
SetKeywords(text) ==
    /\ ~isSearching
    /\ keywords' = text
    /\ UNCHANGED <<clientId, clientSecret, accessToken, results,
                   previousResults, isSearching, progress, error, showMatrix,
                   tokenStatus, tokenCall, search, requests, responses, runs>>

\* 'Use different credentials', rendered while a token is stored.
UseDifferentCredentials ==
    /\ Truthy(accessToken)
    /\ accessToken' = <<>>
    /\ tokenStatus' = ""
    /\ UNCHANGED <<clientId, clientSecret, keywords, results, previousResults,
                   isSearching, progress, error, showMatrix, tokenCall,
                   search, requests, responses, runs>>

\* ------------------------------------------------------------------------
\* requestAccessToken
\* ------------------------------------------------------------------------

\* The 'Request Access Token' button: rendered while no token is stored,
\* disabled={isSearching}.  The model follows one call at a time.
CanRequestToken == ~Truthy(accessToken) /\ ~isSearching /\ tokenCall = "none"

\* A requestAccessToken without the check of the two fields.
RequestAccessTokenInvalid_Sends ==
    /\ CanRequestToken
    /\ Trim(clientId) = <<>> \/ Trim(clientSecret) = <<>>
    /\ error' = ""
    /\ tokenStatus' = "Requesting token..."
    /\ tokenCall' = "fetch"
    /\ UNCHANGED <<clientId, clientSecret, accessToken, keywords, results,
                   previousResults, isSearching, progress, showMatrix, search,
                   requests, responses, runs>>

RequestAccessTokenInvalid ==
    /\ CanRequestToken
    /\ Trim(clientId) = <<>> \/ Trim(clientSecret) = <<>>
    /\ error' = "Please enter both Client ID and Client Secret"
    /\ UNCHANGED <<clientId, clientSecret, accessToken, keywords, results,
                   previousResults, isSearching, progress, showMatrix,
                   tokenStatus, tokenCall, search, requests, responses, runs>>

RequestAccessTokenSend ==
    /\ CanRequestToken
    /\ Trim(clientId) # <<>> /\ Trim(clientSecret) # <<>>
    /\ error' = ""
    /\ tokenStatus' = "Requesting token..."
    /\ tokenCall' = "fetch"
    /\ UNCHANGED <<clientId, clientSecret, accessToken, keywords, results,
                   previousResults, isSearching, progress, showMatrix, search,
                   requests, responses, runs>>

\* fetch('/api/token') resolves with response.ok.
TokenResponseOk ==
    /\ tokenCall = "fetch"
    /\ tokenCall' = "json"
    /\ UNCHANGED <<reactVars, search, requests, responses, runs>>

\* fetch('/api/token') resolves with !response.ok.
TokenResponseNotOk ==
    /\ tokenCall = "fetch"
    /\ error' = "Failed to request token. Check your Client ID and Secret."
    /\ tokenStatus' = ""
    /\ tokenCall' = "none"
    /\ UNCHANGED <<clientId, clientSecret, accessToken, keywords, results,
                   previousResults, isSearching, progress, showMatrix, search,
                   requests, responses, runs>>

\* fetch('/api/token') or response.json() rejects.
TokenCallThrows ==
    /\ tokenCall \in {"fetch", "json"}
    /\ error' = "Error requesting token: Failed to fetch"
    /\ tokenStatus' = ""
    /\ tokenCall' = "none"
    /\ UNCHANGED <<clientId, clientSecret, accessToken, keywords, results,
                   previousResults, isSearching, progress, showMatrix, search,
                   requests, responses, runs>>

\* response.json() resolves: setAccessToken(data.access_token).
TokenReceived(token) ==
    /\ tokenCall = "json"
    /\ accessToken' = token
    /\ tokenStatus' = "Token active"
    /\ tokenCall' = "none"
    /\ UNCHANGED <<clientId, clientSecret, keywords, results, previousResults,
                   isSearching, progress, error, showMatrix, search, requests,
                   responses, runs>>

\* ------------------------------------------------------------------------
\* handleSearch
\* ------------------------------------------------------------------------

\* A button that stays enabled during a run.
CanStartResearch_WhileSearching == Truthy(accessToken)

\* The 'Start Research' button, disabled={isSearching || !accessToken}.
CanStartResearch == ~isSearching /\ Truthy(accessToken)

\* The request fetch() sends for a keyword: the q parameter and the
\* Authorization header's bearer token.
SearchRequest(keyword, token) == [keyword |-> keyword, token |-> token]

\* A start that adds the results to the previous snapshot instead of
\* replacing it.
StartRun_Merges(keywordList) ==
    /\ previousResults' = previousResults \o results
    /\ isSearching' = TRUE
    /\ error' = ""
    /\ results' = <<>>
    /\ progress' = 0
    /\ search' = [pc |-> "fetch",
                  keywordList |-> keywordList,
                  i |-> 1,
                  searchResults |-> <<>>,
                  data |-> None,
                  previousResults |-> previousResults,
                  accessToken |-> accessToken]
    /\ requests' = <<SearchRequest(keywordList[1], accessToken)>>
    /\ responses' = <<>>
    /\ runs' = runs + 1
    /\ UNCHANGED <<clientId, clientSecret, accessToken, keywords, showMatrix,
                   tokenStatus, tokenCall>>

\* The run starts: the five set-state calls, searchResults = [], and the
\* first fetch of the loop.  The call keeps the previousResults and the
\* accessToken of the render it was created in.
StartRun(keywordList) ==
    /\ previousResults' = results
    /\ isSearching' = TRUE
    /\ error' = ""
    /\ results' = <<>>
    /\ progress' = 0
    /\ search' = [pc |-> "fetch",
                  keywordList |-> keywordList,
                  i |-> 1,
                  searchResults |-> <<>>,
                  data |-> None,
                  previousResults |-> previousResults,
                  accessToken |-> accessToken]
    /\ requests' = <<SearchRequest(keywordList[1], accessToken)>>
    /\ responses' = <<>>
    /\ runs' = runs + 1
    /\ UNCHANGED <<clientId, clientSecret, accessToken, keywords, showMatrix,
                   tokenStatus, tokenCall>>

\* A handleSearch that tests !accessToken instead of !accessToken.trim():
\* a blank token passes.
HandleSearchMissingToken_Untrimmed ==
    /\ CanStartResearch
    /\ Trim(accessToken) = <<>>
    /\ KeywordList(keywords) # <<>>
    /\ StartRun(KeywordList(keywords))

\* if (!accessToken.trim()) { setError(...); return; }
HandleSearchMissingToken ==
    /\ CanStartResearch
    /\ Trim(accessToken) = <<>>
    /\ error' = "Please request an access token first"
    /\ UNCHANGED <<clientId, clientSecret, accessToken, keywords, results,
                   previousResults, isSearching, progress, showMatrix,
                   tokenStatus, tokenCall, search, requests, responses, runs>>

\* if (keywordList.length === 0) { setError(...); return; }
HandleSearchNoKeywords ==
    /\ CanStartResearch
    /\ Trim(accessToken) # <<>>
    /\ KeywordList(keywords) = <<>>
    /\ error' = "Please enter at least one keyword"
    /\ UNCHANGED <<clientId, clientSecret, accessToken, keywords, results,
                   previousResults, isSearching, progress, showMatrix,
                   tokenStatus, tokenCall, search, requests, responses, runs>>

\* The checks passed: the run starts.
HandleSearchStart ==
    /\ CanStartResearch
    /\ Trim(accessToken) # <<>>
    /\ KeywordList(keywords) # <<>>
    /\ StartRun(KeywordList(keywords))

\* A loop test that is off by one: the last keyword is never fetched.
NextKeyword_StopsEarly(searchResults) ==
    IF search.i + 1 < Len(search.keywordList)
    THEN /\ search' = [search EXCEPT !.pc = "fetch", !.i = search.i + 1,
                                     !.searchResults = searchResults]
         /\ requests' = Append(requests,
                SearchRequest(search.keywordList[search.i + 1], search.accessToken))
         /\ UNCHANGED <<isSearching, showMatrix>>
    ELSE /\ search' = [search EXCEPT !.pc = "done",
                                     !.searchResults = searchResults]
         /\ isSearching' = FALSE
         /\ showMatrix' = TRUE
         /\ UNCHANGED requests

\* i++ and the loop test: the next fetch, or the two set-state calls that
\* end the run.
\* A loop that reads the token of the current render for each request.
NextKeyword_CurrentToken(searchResults) ==
    IF search.i + 1 <= Len(search.keywordList)
    THEN /\ search' = [search EXCEPT !.pc = "fetch", !.i = search.i + 1,
                                     !.searchResults = searchResults]
         /\ requests' = Append(requests,
                SearchRequest(search.keywordList[search.i + 1], accessToken))
         /\ UNCHANGED <<isSearching, showMatrix>>
    ELSE /\ search' = [search EXCEPT !.pc = "done",
                                     !.searchResults = searchResults]
         /\ isSearching' = FALSE
         /\ showMatrix' = TRUE
         /\ UNCHANGED requests

NextKeyword(searchResults) ==
    IF search.i + 1 <= Len(search.keywordList)
    THEN /\ search' = [search EXCEPT !.pc = "fetch", !.i = search.i + 1,
                                     !.searchResults = searchResults]
         /\ requests' = Append(requests,
                SearchRequest(search.keywordList[search.i + 1], search.accessToken))
         /\ UNCHANGED <<isSearching, showMatrix>>
    ELSE /\ search' = [search EXCEPT !.pc = "done",
                                     !.searchResults = searchResults]
         /\ isSearching' = FALSE
         /\ showMatrix' = TRUE
         /\ UNCHANGED requests

\* A catch block that gives the run up instead of recording the failure.
CatchError_Aborts(message) ==
    /\ error' = message
    /\ isSearching' = FALSE
    /\ search' = [search EXCEPT !.pc = "aborted"]
    /\ UNCHANGED <<clientId, clientSecret, accessToken, keywords, results,
                   previousResults, progress, showMatrix, tokenStatus,
                   tokenCall, requests, runs>>

\* The catch block: the failed result, setResults, setProgress, and on to
\* the next keyword.
CatchError(message) ==
    LET searchResults ==
            Append(search.searchResults,
                   FailedResult(search.keywordList[search.i], message))
    IN  /\ results' = searchResults
        /\ progress' = ProgressOf(search.i, Len(search.keywordList))
        /\ NextKeyword(searchResults)
        /\ UNCHANGED <<clientId, clientSecret, accessToken, keywords,
                       previousResults, error, tokenStatus, tokenCall, runs>>

\* fetch() resolves with response.ok: on to await response.json().
SearchResponseOk ==
    /\ search.pc = "fetch"
    /\ search' = [search EXCEPT !.pc = "json"]
    /\ UNCHANGED <<reactVars, tokenCall, requests, responses, runs>>

\* A 401 branch that returns without setIsSearching(false).
SearchUnauthorized_KeepsSearching ==
    /\ search.pc = "fetch"
    /\ error' = "Token expired. Request a new one."
    /\ search' = [search EXCEPT !.pc = "aborted"]
    /\ responses' = Append(responses, "401")
    /\ UNCHANGED <<clientId, clientSecret, accessToken, keywords, results,
                   previousResults, isSearching, progress, showMatrix,
                   tokenStatus, tokenCall, requests, runs>>

\* A 401 treated like every other status that is not ok: thrown, caught
\* and recorded.
SearchUnauthorized_Recorded ==
    /\ search.pc = "fetch"
    /\ CatchError("API error: 401")
    /\ responses' = Append(responses, "401")

\* fetch() resolves with status 401: setError, setIsSearching(false), return.
SearchUnauthorized ==
    /\ search.pc = "fetch"
    /\ error' = "Token expired. Request a new one."
    /\ isSearching' = FALSE
    /\ search' = [search EXCEPT !.pc = "aborted"]
    /\ responses' = Append(responses, "401")
    /\ UNCHANGED <<clientId, clientSecret, accessToken, keywords, results,
                   previousResults, progress, showMatrix, tokenStatus,
                   tokenCall, requests, runs>>

\* fetch() resolves with another status that is not ok:
\* throw new Error(`API error: ${response.status}`).
SearchHttpError(message) ==
    /\ search.pc = "fetch"
    /\ CatchError(message)
    /\ responses' = Append(responses, "status")

\* fetch() rejects.
SearchFetchRejects(message) ==
    /\ search.pc = "fetch"
    /\ CatchError(message)
    /\ responses' = Append(responses, "rejected")

\* response.json() rejects, or reading the parsed body throws.
SearchBodyThrows(message) ==
    /\ search.pc = "json"
    /\ CatchError(message)
    /\ responses' = Append(responses, "body")

\* response.json() resolves with data: the metrics, the push, setResults,
\* setProgress, and the wait of 100 ms starts.
SearchDataRead(data) ==
    /\ search.pc = "json"
    /\ LET searchResults ==
               Append(search.searchResults,
                      OkResult(search.keywordList[search.i], data,
                               search.previousResults))
       IN  /\ results' = searchResults
           /\ progress' = ProgressOf(search.i, Len(search.keywordList))
           /\ search' = [search EXCEPT !.pc = "delay",
                                       !.data = Some(data),
                                       !.searchResults = searchResults]
    /\ responses' = Append(responses, "data")
    /\ UNCHANGED <<clientId, clientSecret, accessToken, keywords,
                   previousResults, isSearching, error, showMatrix,
                   tokenStatus, tokenCall, requests, runs>>

\* The timer of setTimeout(resolve, 100) fires.
DelayElapsed ==
    /\ search.pc = "delay"
    /\ NextKeyword(search.searchResults)
    /\ UNCHANGED <<clientId, clientSecret, accessToken, keywords, results,
                   previousResults, progress, error, tokenStatus, tokenCall,
                   responses, runs>>

\* ------------------------------------------------------------------------
\* Inputs: what the user types and what the token and search endpoints
\* answer
\* ------------------------------------------------------------------------

\* lines.join('\n'), joined half by half.
RECURSIVE JoinLines(_)
JoinLines(lines) ==
    IF Len(lines) = 1 THEN lines[1]
    ELSE LET half == Len(lines) \div 2
         IN  JoinLines(SubSeq(lines, 1, half)) \o <<"\n">> \o
                 JoinLines(SubSeq(lines, half + 1, Len(lines)))

\* The texts of at most n lines, each line one of `lines`.
TextsOf(lines, n) ==
    {JoinLines(ls) : ls \in UNION {[1..k -> lines] : k \in 1..n}}

Book(popularity) == [popularity |-> popularity]

\* The parsed body of a search response: data.audiobooks.items and
\* data.audiobooks.total, each of which may be missing.
SearchData(items, total) == [items |-> items, total |-> total]

CredentialInputs == {<<" ">>, <<"i", "d">>}

TokenInputs == {<<" ">>, <<"t">>}

HttpErrorInputs == {"API error: 500"}

FetchErrorInputs == {"Failed to fetch"}

BodyErrorInputs == {"Unexpected end of JSON input"}

\* Two catalogue answers: one item of popularity 40 among 10, one item of
\* popularity 55 among 8.
DataInputs ==
    {SearchData(Some(<<Book(Some(40))>>), Some(10)),
     SearchData(Some(<<Book(Some(55))>>), Some(8))}

FormStep ==
    \/ \E v \in CredentialInputs : SetClientId(v)
    \/ \E v \in CredentialInputs : SetClientSecret(v)

TokenStep ==
    \/ RequestAccessTokenInvalid
    \/ RequestAccessTokenSend
    \/ TokenResponseOk
    \/ TokenResponseNotOk
    \/ TokenCallThrows
    \/ \E token \in TokenInputs : TokenReceived(token)

SearchGuardStep ==
    \/ HandleSearchMissingToken
    \/ HandleSearchNoKeywords

\* What the search endpoint can answer to the request in flight, and the
\* timer.
SearchStep ==
    \/ SearchResponseOk
    \/ SearchUnauthorized
    \/ \E message \in HttpErrorInputs : SearchHttpError(message)
    \/ \E message \in FetchErrorInputs : SearchFetchRejects(message)
    \/ \E message \in BodyErrorInputs : SearchBodyThrows(message)
    \/ \E data \in DataInputs : SearchDataRead(data)
    \/ DelayElapsed

\* ------------------------------------------------------------------------
\* Spec: the form, the token and the first run, over any keyword text of at
\* most MaxLines lines typed before it.
\* ------------------------------------------------------------------------

MaxLines == 3

LineInputs == {<<"a">>, <<" ", "b", " ">>}

\* Texts without a keyword, and one with an empty line between two keywords.
BlankTextInputs == {<<" ">>, <<" ", "\n", "\n">>, <<"a", "\n", " ", "\n", "b">>}

TextInputs == TextsOf(LineInputs, MaxLines) \cup BlankTextInputs

Next ==
    \/ FormStep
    \/ TokenStep
    \/ SearchGuardStep
    \/ runs = 0 /\ \E text \in TextInputs : SetKeywords(text)
    \/ runs = 0 /\ HandleSearchStart
    \/ SearchStep

Spec == Init /\ [][Next]_vars

\* ------------------------------------------------------------------------
\* SpecRerun: up to MaxRuns consecutive runs over the same few keywords,
\* with a valid token.
\* ------------------------------------------------------------------------

MaxRuns == 3

RerunTextInputs == {<<" ">>, <<"a">>, <<"b", "\n", "a">>}

RerunTokenStep ==
    \/ \E v \in {<<"i", "d">>} : SetClientId(v)
    \/ \E v \in {<<"i", "d">>} : SetClientSecret(v)
    \/ RequestAccessTokenSend
    \/ TokenResponseOk
    \/ \E token \in TokenInputs : TokenReceived(token)
    \/ UseDifferentCredentials

RerunSearchStep ==
    \/ SearchResponseOk
    \/ SearchUnauthorized
    \/ \E message \in HttpErrorInputs : SearchHttpError(message)
    \/ \E data \in DataInputs : SearchDataRead(data)
    \/ DelayElapsed

NextRerun ==
    \/ RerunTokenStep
    \/ SearchGuardStep
    \/ \E text \in RerunTextInputs : SetKeywords(text)
    \/ runs < MaxRuns /\ HandleSearchStart
    \/ RerunSearchStep

SpecRerun == Init /\ [][NextRerun]_vars

\* ------------------------------------------------------------------------
\* SpecMetrics: one run over one keyword, over every response body with a
\* total of at most MaxTotal and at most MaxItems items.
\* ------------------------------------------------------------------------

MaxTotal == 510

MaxItems == 2

\* An item's popularity: missing, 0, or a value.
PopularityInputs == {None, Some(0), Some(40), Some(55), Some(100)}

ItemListInputs ==
    {<<>>} \cup
    UNION {[1..k -> {Book(popularity) : popularity \in PopularityInputs}] :
               k \in 1..MaxItems}

MetricsDataInputs ==
    {SearchData(items, total) :
         items \in {None} \cup {Some(list) : list \in ItemListInputs},
         total \in {None} \cup {Some(count) : count \in 0..MaxTotal}}

MetricsSetupStep ==
    \/ \E v \in {<<"i", "d">>} : SetClientId(v)
    \/ \E v \in {<<"i", "d">>} : SetClientSecret(v)
    \/ RequestAccessTokenSend
    \/ TokenResponseOk
    \/ \E token \in {<<"t">>} : TokenReceived(token)
    \/ runs = 0 /\ \E text \in {<<"a">>} : SetKeywords(text)

NextMetrics ==
    \/ MetricsSetupStep
    \/ runs = 0 /\ HandleSearchStart
    \/ SearchResponseOk
    \/ search.pc = "json" /\ \E data \in MetricsDataInputs : SearchDataRead(data)
    \/ \E message \in HttpErrorInputs : SearchHttpError(message)
    \/ DelayElapsed

SpecMetrics == Init /\ [][NextMetrics]_vars

\* ------------------------------------------------------------------------
\* SpecBatch: one run over a batch of up to MaxBatch keywords.  The search
\* endpoint answers 500 for the keyword 'b', one fixed body for any other,
\* and may answer 401 to any request.
\* ------------------------------------------------------------------------

MaxBatch == 200

BatchSizes == {1, 3, 40, MaxBatch}

\* n lines: 'a', 'b', 'a', 'a', ...
BatchLines(n) == [j \in 1..n |-> IF j = 2 THEN <<"b">> ELSE <<"a">>]

BatchTextInputs == {JoinLines(BatchLines(n)) : n \in BatchSizes}

BatchDataInputs == {SearchData(Some(<<Book(Some(40))>>), Some(10))}

\* The keyword of the request in flight.
KeywordInFlight == search.keywordList[search.i]

BatchSetupStep ==
    \/ \E v \in {<<"i", "d">>} : SetClientId(v)
    \/ \E v \in {<<"i", "d">>} : SetClientSecret(v)
    \/ RequestAccessTokenSend
    \/ TokenResponseOk
    \/ \E token \in {<<"t">>} : TokenReceived(token)
    \/ runs = 0 /\ \E text \in BatchTextInputs : SetKeywords(text)

NextBatch ==
    \/ BatchSetupStep
    \/ runs = 0 /\ HandleSearchStart
    \/ search.pc = "fetch" /\ KeywordInFlight # <<"b">> /\ SearchResponseOk
    \/ search.pc = "fetch" /\ KeywordInFlight = <<"b">> /\
           \E message \in HttpErrorInputs : SearchHttpError(message)
    \/ SearchUnauthorized
    \/ \E data \in BatchDataInputs : SearchDataRead(data)
    \/ DelayElapsed

SpecBatch == Init /\ [][NextBatch]_vars

\* ------------------------------------------------------------------------
\* SpecSnapshot: one run over up to MaxLines keywords whose results differ
\* in score: a total of 0 (score 0), of 4 and of 499 (both score 20), of
\* 10 (score 18), and a keyword that fails.
\* ------------------------------------------------------------------------

SnapshotTextInputs == {JoinLines(BatchLines(n)) : n \in 1..MaxLines}

SnapshotDataInputs ==
    {SearchData(Some(<<Book(Some(40))>>), Some(0)),
     SearchData(Some(<<Book(Some(40)), Book(Some(55))>>), Some(4)),
     SearchData(Some(<<Book(Some(55))>>), Some(10)),
     SearchData(Some(<<Book(Some(100))>>), Some(499))}

SnapshotSetupStep ==
    \/ \E v \in {<<"i", "d">>} : SetClientId(v)
    \/ \E v \in {<<"i", "d">>} : SetClientSecret(v)
    \/ RequestAccessTokenSend
    \/ TokenResponseOk
    \/ \E token \in {<<"t">>} : TokenReceived(token)
    \/ runs = 0 /\ \E text \in SnapshotTextInputs : SetKeywords(text)

NextSnapshot ==
    \/ SnapshotSetupStep
    \/ runs = 0 /\ HandleSearchStart
    \/ SearchResponseOk
    \/ SearchUnauthorized
    \/ \E message \in HttpErrorInputs : SearchHttpError(message)
    \/ \E data \in SnapshotDataInputs : SearchDataRead(data)
    \/ DelayElapsed

SpecSnapshot == Init /\ [][NextSnapshot]_vars

\* ------------------------------------------------------------------------
\* SpecHistory: up to MaxRuns runs, one after the other, over the same one
\* or two keywords with the same token.
\* ------------------------------------------------------------------------

HistoryTextInputs == {<<"a">>, <<"a", "\n", "b">>}

HistorySetupStep ==
    \/ \E v \in {<<"i", "d">>} : SetClientId(v)
    \/ \E v \in {<<"i", "d">>} : SetClientSecret(v)
    \/ RequestAccessTokenSend
    \/ TokenResponseOk
    \/ \E token \in {<<"t">>} : TokenReceived(token)
    \/ runs = 0 /\ \E text \in HistoryTextInputs : SetKeywords(text)

NextHistory ==
    \/ HistorySetupStep
    \/ runs < MaxRuns /\ HandleSearchStart
    \/ SearchResponseOk
    \/ SearchUnauthorized
    \/ \E message \in HttpErrorInputs : SearchHttpError(message)
    \/ \E data \in DataInputs : SearchDataRead(data)
    \/ DelayElapsed

SpecHistory == Init /\ [][NextHistory]_vars

\* ------------------------------------------------------------------------
\* SpecLive: the runs of SpecHistory with every way a request can fail,
\* where every search request is answered in the end (with a response or
\* an error) and every delay ends.
\* ------------------------------------------------------------------------

NextLive ==
    \/ NextHistory
    \/ \E message \in FetchErrorInputs : SearchFetchRejects(message)
    \/ \E message \in BodyErrorInputs : SearchBodyThrows(message)

\* await fetch(...) settles: with a response, or with a rejection.
SearchResponded ==
    \/ SearchResponseOk
    \/ SearchUnauthorized
    \/ \E message \in HttpErrorInputs : SearchHttpError(message)
    \/ \E message \in FetchErrorInputs : SearchFetchRejects(message)

\* await response.json() settles.  The step of SearchDataRead is named by
\* what it adds to the log of responses, whichever body was read.
SearchBodySettled ==
    \/ search.pc = "json" /\ responses' = Append(responses, "data")
    \/ \E message \in BodyErrorInputs : SearchBodyThrows(message)

SpecLive ==
    /\ Init
    /\ [][NextLive]_vars
    /\ WF_vars(SearchResponded)
    /\ WF_responses(SearchBodySettled)
    /\ WF_vars(DelayElapsed)

\* ------------------------------------------------------------------------
\* SpecCredentials: the runs of SpecHistory, answered in the end as in
\* SpecLive, where the stored token may be cleared at any time it is
\* shown, a run in progress included, and the token requested after the
\* first run is another one.
\* ------------------------------------------------------------------------

LaterTokenInputs == {<<"u">>}

NextCredentials ==
    \/ NextHistory
    \/ UseDifferentCredentials
    \/ runs >= 1 /\ \E token \in LaterTokenInputs : TokenReceived(token)

SpecCredentials ==
    /\ Init
    /\ [][NextCredentials]_vars
    /\ WF_vars(SearchResponded)
    /\ WF_responses(SearchBodySettled)
    /\ WF_vars(DelayElapsed)

\* ------------------------------------------------------------------------
\* Properties of a research run
\* ------------------------------------------------------------------------

Range(seq) == {seq[j] : j \in 1..Len(seq)}

Last(seq) == seq[Len(seq)]

\* A run of handleSearch has started (and may have ended).
RunStarted == search.pc # "idle"

\* A run that is between its first fetch and its end.
RunInFlight == search.pc \in {"fetch", "json", "delay"}

\* The responses that take the catch path.
FailureResponses == {"status", "rejected", "body"}

\* What the claim of C1 expects of a result: the difference from the entry
\* of the same keyword in the snapshot of the run before, 0 without one.
ExpectedTrends(r, snapshot) ==
    LET prevResult == Find(snapshot, r.keyword)
    IN  IF IsSome(prevResult)
        THEN [popularityTrend |-> Some(r.avgPopularity - prevResult[1].avgPopularity),
              supplyTrend |-> Some(r.audiobooks - prevResult[1].audiobooks)]
        ELSE [popularityTrend |-> Some(0), supplyTrend |-> Some(0)]

\* C1: when a run starts, the results of the run before it become the
\* previous snapshot, and every successful result of the new run carries
\* popularityTrend and supplyTrend equal to its difference from the
\* snapshot's entry for the same keyword (0 when the snapshot has none).
C1_TrendsAgainstPrecedingRun ==
    \A j \in 1..Len(results) :
        ~IsSome(results[j].error) =>
            /\ results[j].popularityTrend =
                   ExpectedTrends(results[j], previousResults).popularityTrend
            /\ results[j].supplyTrend =
                   ExpectedTrends(results[j], previousResults).supplyTrend

\* C2: a run over n non-empty trimmed keywords that is not cut short by a
\* 401 queries them in the order typed and ends with exactly n results,
\* one per keyword, in that order.
C2_OneResultPerKeywordInOrder ==
    RunStarted =>
        /\ isSearching => search.keywordList = KeywordList(keywords)
        /\ \A j \in 1..Len(search.keywordList) :
               NonEmpty(search.keywordList[j])
        /\ \A j \in 1..Len(requests) :
               requests[j].keyword = search.keywordList[j]
        /\ "401" \notin Range(responses) =>
               /\ Len(results) = Len(responses)
               /\ Len(results) <= Len(search.keywordList)
               /\ \A j \in 1..Len(results) :
                      results[j].keyword = search.keywordList[j]
               /\ search.pc # "aborted"
        /\ search.pc = "done" =>
               /\ Len(results) = Len(search.keywordList)
               /\ Len(requests) = Len(search.keywordList)

\* A finished run over three lines, two of them the same keyword, with a
\* failure in the middle.
C2_Witness ==
    /\ search.pc = "done"
    /\ Len(search.keywordList) = 3
    /\ Len(results) = 3
    /\ responses = <<"data", "rejected", "data">>
    /\ results[1].keyword # results[2].keyword

\* The state a run is left in by a 401 for keyword number search.i.
AbortedByUnauthorized ==
    /\ Last(responses) = "401"
    /\ search.pc = "aborted"
    /\ ~isSearching
    /\ Len(responses) = search.i
    /\ Len(requests) = search.i
    /\ Len(results) = search.i - 1
    /\ \A j \in 1..Len(results) :
           /\ results[j].keyword = search.keywordList[j]
           /\ responses[j] # "401"

\* C3: a 401 for the k-th keyword ends the run at once: the step that
\* takes it sets the error to 'Token expired. Request a new one.' and
\* clears the searching flag, the results hold exactly the k-1 entries
\* recorded before it, no later keyword is requested, and no entry is
\* stored for the keyword that got the 401.
C3_UnauthorizedAbortsRun ==
    /\ []((RunStarted /\ "401" \in Range(responses)) => AbortedByUnauthorized)
    /\ [][("401" \in Range(responses') /\ "401" \notin Range(responses)) =>
              /\ error' = "Token expired. Request a new one."
              /\ results' = results
              /\ requests' = requests
              /\ ~isSearching']_vars

\* 401 on the second of three keywords: one result is kept.
C3_Witness ==
    /\ search.pc = "aborted"
    /\ Len(search.keywordList) = 3
    /\ search.i = 2
    /\ Len(results) = 1
    /\ responses = <<"data", "401">>
    /\ error = "Token expired. Request a new one."

\* C4: a failure other than a 401 (another status, a rejected fetch, a
\* body that cannot be read) is recorded as a failed result for its
\* keyword, the run goes on to the next keyword, and a run without a 401
\* still ends with n entries.
C4_FailureIsRecordedAndRunContinues ==
    RunStarted =>
        /\ \A j \in 1..Len(responses) :
               responses[j] \in FailureResponses =>
                   /\ j <= Len(results)
                   /\ results[j].keyword = search.keywordList[j]
                   /\ results[j].audiobooks = FailedCount
                   /\ HasError(results[j])
                   /\ j < Len(search.keywordList) => Len(requests) > j
        /\ \A j \in 1..Len(responses) :
               responses[j] = "data" =>
                   /\ j <= Len(results)
                   /\ ~IsSome(results[j].error)
        /\ (responses # <<>> /\ Last(responses) \in FailureResponses) =>
               /\ search.pc \in {"fetch", "json", "done"}
               /\ search.pc = "done" <=>
                      Len(responses) = Len(search.keywordList)
        /\ ("401" \notin Range(responses) /\ ~RunInFlight) =>
               Len(results) = Len(search.keywordList)

\* A status other than 401 on the second of three keywords: three entries,
\* the second failed, the first and third populated.
C4_Witness ==
    /\ search.pc = "done"
    /\ responses = <<"data", "status", "data">>
    /\ Len(results) = 3
    /\ results[2].audiobooks = FailedCount
    /\ results[2].error = Some("API error: 500")
    /\ results[1].audiobooks >= 0
    /\ results[3].audiobooks >= 0

\* C5: every result is either successful, with no error message and a
\* count that is not negative, or failed, with an error message and the
\* count -1; the count is -1 exactly when the error message is set.
C5_ResultIsOkOrFailed ==
    \A snapshot \in {results, previousResults, search.searchResults} :
        \A j \in 1..Len(snapshot) :
            LET r == snapshot[j]
            IN  /\ HasError(r) <=> r.audiobooks = FailedCount
                /\ HasError(r) <=> IsSome(r.error)
                /\ ~HasError(r) =>
                       /\ r.audiobooks >= 0
                       /\ r.avgPopularity \in 0..100
                       /\ r.estimatedTrendsInterest \in 0..MaxInterest
                       /\ IsSome(r.popularityTrend)
                       /\ IsSome(r.supplyTrend)

\* A snapshot with a failed and a successful result side by side.
C5_Witness ==
    /\ Len(results) = 2
    /\ HasError(results[1])
    /\ results[1].audiobooks = FailedCount
    /\ ~HasError(results[2])
    /\ results[2].audiobooks = 10
    /\ \E j \in 1..Len(previousResults) : HasError(previousResults[j])

\* C6: a failed result has audiobooks -1 and avgPopularity,
\* estimatedTrendsInterest, popularityTrend and supplyTrend all 0.
C6_FailedResultFieldsAreZero ==
    \A j \in 1..Len(results) :
        HasError(results[j]) =>
            /\ results[j].audiobooks = FailedCount
            /\ results[j].avgPopularity = 0
            /\ results[j].estimatedTrendsInterest = 0
            /\ results[j].popularityTrend = Some(0)
            /\ results[j].supplyTrend = Some(0)

\* The state a click on 'Start Research' must leave alone when it is
\* turned down.
runState == <<results, previousResults, progress, isSearching, showMatrix,
              search, requests, responses, runs>>

\* C7: with a blank access token a call of handleSearch fails with 'Please
\* request an access token first'; with a token and no non-empty keyword
\* it fails with 'Please enter at least one keyword'.  Neither call
\* touches the results, the previous snapshot, the progress, the searching
\* flag or sends a request.
C7_RejectedSearchChangesNothing ==
    [][/\ (~isSearching /\ Trim(accessToken) = <<>>) => UNCHANGED runState
       /\ (~isSearching /\ KeywordList(keywords) = <<>>) => UNCHANGED runState
       /\ (CanStartResearch /\ error' # error) =>
              /\ Trim(accessToken) = <<>> =>
                     error' = "Please request an access token first"
              /\ (Trim(accessToken) # <<>> /\ KeywordList(keywords) = <<>>) =>
                     error' = "Please enter at least one keyword"
              /\ (Trim(accessToken) # <<>> /\ KeywordList(keywords) # <<>>) =>
                     error' = ""]_vars

\* After a finished run the token is replaced by a blank one and the click
\* is turned down: the results of the run are still there.
C7_Witness ==
    /\ error = "Please request an access token first"
    /\ Trim(accessToken) = <<>>
    /\ Truthy(accessToken)
    /\ KeywordList(keywords) # <<>>
    /\ results # <<>>
    /\ search.pc = "done"
    /\ ~isSearching

\* ------------------------------------------------------------------------
\* Properties of the metrics and of the progress
\* ------------------------------------------------------------------------

\* The result just pushed for the body in search.data.
ResultOfData == results[search.i]

\* A body has been read and its result pushed.
DataJustRead == search.pc = "delay" /\ IsSome(search.data)

\* An item's popularity as C8 reads it: its own value whenever it is
\* present, 0 included, and 50 only when it is absent.
PresentPopularityOf(book) ==
    IF IsSome(book.popularity) THEN book.popularity[1] ELSE DefaultPopularity

RECURSIVE SumPresentPopularity(_)
SumPresentPopularity(items) ==
    IF items = <<>> THEN 0
    ELSE PresentPopularityOf(Head(items)) + SumPresentPopularity(Tail(items))

\* q is x / y rounded to the nearest integer, a half rounded up (y > 0).
IsRounded(q, x, y) == 2 * y * q <= 2 * x + y /\ 2 * x + y < 2 * y * q + 2 * y

\* C8: the avgPopularity of a successful result is an integer in 0..100,
\* the rounded mean of its items' popularity, where a popularity that is
\* present counts as itself (0 included) and an absent one as 50; with no
\* items it is 50.
C8_AvgPopularityCountsPresentValues ==
    DataJustRead =>
        LET items == IF IsSome(search.data[1].items)
                     THEN search.data[1].items[1] ELSE <<>>
            avg == ResultOfData.avgPopularity
        IN  /\ avg \in 0..100
            /\ IF items = <<>>
               THEN avg = DefaultPopularity
               ELSE IsRounded(avg, SumPresentPopularity(items), Len(items))

\* C9: the estimatedTrendsInterest of a successful result with count >= 0
\* is min(100, round(count / 5)) and lies in 0..100.
C9_EstimatedInterestIsCappedFifth ==
    DataJustRead =>
        LET count == ResultOfData.audiobooks
            interest == ResultOfData.estimatedTrendsInterest
        IN  /\ count = (IF IsSome(search.data[1].total)
                        THEN search.data[1].total[1] ELSE 0)
            /\ count >= 0
            /\ interest \in 0..100
            /\ interest < 100 => IsRounded(interest, count, 5)
            /\ interest = 100 => 2 * count >= 995

\* A count of 503, whose fifth rounds to 101: the estimate is 100.
C9_Witness ==
    /\ DataJustRead
    /\ ResultOfData.audiobooks = 503
    /\ ResultOfData.estimatedTrendsInterest = 100

\* C10: throughout a run over n keywords the progress is
\* round(100 * (number of results) / n): 0 at the start, never decreasing,
\* 100 exactly when the run has completed normally (every keyword has its
\* result), and after a 401 it stays at the value reached by the keywords
\* completed before.
C10_ProgressIsRoundedShare ==
    /\ [](RunStarted =>
              /\ IsRounded(progress, 100 * Len(results), Len(search.keywordList))
              /\ progress = 100 <=> Len(results) = Len(search.keywordList)
              /\ search.pc = "done" => progress = 100)
    /\ [][runs' # runs => progress' = 0]_vars
    /\ [][(RunStarted /\ runs' = runs) => progress' >= progress]_vars
    /\ [][(search'.pc = "aborted" /\ search.pc # "aborted") =>
              progress' = progress]_vars

\* ------------------------------------------------------------------------
\* Properties of the derived values
\* ------------------------------------------------------------------------

\* The rank C11 gives a result: its score when it has one, 0 included, and
\* below every score when it has none.
ClaimedRank(r) ==
    IF HasError(r) THEN NoScore ELSE GetOpportunityScore(r)[1]

\* C11: sortedByOpportunity is in descending order of score, a failed
\* result ranking below every computed score, a score of 0 included: every
\* successful result comes before every failed one, and results of equal
\* rank keep their input order.
C11_SuccessfulRankAboveFailed ==
    LET order == SortOrder(results, Len(results))
        sorted == SortedByOpportunity(results)
    IN  \A p, q \in 1..Len(results) :
            p < q =>
                /\ ClaimedRank(sorted[p]) >= ClaimedRank(sorted[q])
                /\ ~(HasError(sorted[p]) /\ ~HasError(sorted[q]))
                /\ ClaimedRank(sorted[p]) = ClaimedRank(sorted[q]) =>
                       order[p] < order[q]

\* C12: sorting a snapshot in which every result is failed returns the
\* results in their input order.
C12_AllFailedKeepInputOrder ==
    (results # <<>> /\ \A j \in 1..Len(results) : HasError(results[j])) =>
        /\ SortedByOpportunity(results) = results
        /\ SortOrder(results, Len(results)) = [j \in 1..Len(results) |-> j]
        /\ TopOpportunities(results) = <<>>

\* A finished run of three keywords that all failed.
C12_Witness ==
    /\ search.pc = "done"
    /\ Len(results) = 3
    /\ \A j \in 1..3 : HasError(results[j])
    /\ results[1].keyword # results[2].keyword
    /\ SortedByOpportunity(results) = results

\* A successful result with the given count and estimate.
ResultWith(count, demand) ==
    [keyword |-> <<"a">>,
     audiobooks |-> count,
     avgPopularity |-> DefaultPopularity,
     estimatedTrendsInterest |-> demand,
     popularityTrend |-> Some(0),
     supplyTrend |-> Some(0),
     error |-> None]

\* C13: getOpportunityScore is round(estimate / (count + 1) * 100) for a
\* successful result (estimate * 100 when the count is 0, and 20 for a
\* count of 499 with an estimate of 99) and null, never a number, for a
\* failed one.
C13_OpportunityScoreIsRoundedRatio ==
    /\ \A j \in 1..Len(results) :
           LET r == results[j]
               score == GetOpportunityScore(r)
           IN  IF HasError(r)
               THEN score = None
               ELSE /\ IsSome(score)
                    /\ IsRounded(score[1], 100 * r.estimatedTrendsInterest,
                                 r.audiobooks + 1)
                    /\ r.audiobooks = 0 =>
                           score[1] = 100 * r.estimatedTrendsInterest
    /\ GetOpportunityScore(ResultWith(499, 99)) = Some(20)
    /\ GetOpportunityScore(ResultWith(0, 99)) = Some(9900)

\* A result with a count of 499: its score is 20.
C13_Witness ==
    /\ DataJustRead
    /\ ResultOfData.audiobooks = 499
    /\ GetOpportunityScore(ResultOfData) = Some(20)

RECURSIVE SumOfValid(_)
SumOfValid(items) ==
    IF items = <<>> THEN 0
    ELSE (IF HasError(Head(items)) THEN 0 ELSE Head(items).avgPopularity)
             + SumOfValid(Tail(items))

CountOfValid(items) ==
    Cardinality({j \in 1..Len(items) : ~HasError(items[j])})

\* C14: for a snapshot with at least one successful result the summary
\* avgPopularity is the rounded mean of avgPopularity over the successful
\* results only; for the empty snapshot it is 0.
C14_SummaryIsMeanOverSuccessful ==
    /\ CountOfValid(results) > 0 =>
           /\ IsSome(AvgPopularityScore(results))
           /\ IsRounded(AvgPopularityScore(results)[1], SumOfValid(results),
                        CountOfValid(results))
    /\ results = <<>> => AvgPopularityScore(results) = Some(0)

\* A failed result followed by results of 40 and 55: the summary is 48.
C14_Witness ==
    /\ Len(results) = 3
    /\ HasError(results[2])
    /\ results[1].avgPopularity = 40
    /\ results[3].avgPopularity = 55
    /\ AvgPopularityScore(results) = Some(48)

\* C20: for every non-empty snapshot, one in which every result is failed
\* included, the summary avgPopularity is an integer in 0..100: the
\* division is never made with a divisor of 0.
C20_SummaryIsAlwaysANumber ==
    results # <<>> =>
        /\ ValidResults(results) > 0
        /\ IsSome(AvgPopularityScore(results))
        /\ AvgPopularityScore(results)[1] \in 0..100

\* The number a cell of digits spells, with its sign if it has one.
RECURSIVE ValueOfDigits(_)
ValueOfDigits(cell) ==
    IF cell = <<>> THEN 0
    ELSE 10 * ValueOfDigits(SubSeq(cell, 1, Len(cell) - 1))
             + (CHOOSE d \in 0..9 : DigitChars[d + 1] = cell[Len(cell)])

IsDigits(cell) ==
    /\ cell # <<>>
    /\ \A k \in 1..Len(cell) : \E d \in 0..9 : DigitChars[d + 1] = cell[k]
    /\ Len(cell) > 1 => cell[1] # "0"

\* The cell spells the number n; positive numbers may carry the sign the
\* trend columns print.
Spells(cell, n, signed) ==
    IF n < 0 THEN /\ Len(cell) > 1
                  /\ cell[1] = "-"
                  /\ IsDigits(Tail(cell))
                  /\ ValueOfDigits(Tail(cell)) = -n
    ELSE IF signed /\ n > 0
         THEN /\ Len(cell) > 1
              /\ cell[1] = "+"
              /\ IsDigits(Tail(cell))
              /\ ValueOfDigits(Tail(cell)) = n
         ELSE IsDigits(cell) /\ ValueOfDigits(cell) = n

\* C15: downloadCSV renders one row per result in snapshot order; the row
\* of a failed result shows 'Error' as the count, '-' as the average
\* popularity, the estimate and the two trends, and the error text as the
\* status; the row of a successful result shows its numbers and 'OK'.
C15_CsvRowPerResult ==
    /\ Len(CsvRows(results)) = Len(results)
    /\ Len(CsvLines(results)) = Len(results) + 1
    /\ \A j \in 1..Len(results) :
           LET r == results[j]
               row == CsvRows(results)[j]
           IN  /\ Len(row) = 7
               /\ row[1] = r.keyword
               /\ CsvLines(results)[j + 1] = CsvLine(row)
               /\ IF IsSome(r.error)
                  THEN /\ row[2] = <<"Error">>
                       /\ \A c \in 3..6 : row[c] = <<"-">>
                       /\ row[7] = <<r.error[1]>>
                  ELSE /\ Spells(row[2], r.audiobooks, FALSE)
                       /\ Spells(row[3], r.avgPopularity, FALSE)
                       /\ Spells(row[4], r.estimatedTrendsInterest, FALSE)
                       /\ Spells(row[5], r.popularityTrend[1], TRUE)
                       /\ Spells(row[6], r.supplyTrend[1], TRUE)
                       /\ row[7] = <<"OK">>

\* A snapshot of a failed result and a successful one whose popularity
\* rose by 15 and whose supply fell by 2.
C15_Witness ==
    /\ Len(results) = 2
    /\ CsvRows(results)[1] =
           <<results[1].keyword, <<"Error">>, <<"-">>, <<"-">>, <<"-">>,
             <<"-">>, <<"API error: 500">> >>
    /\ CsvRows(results)[2] =
           <<results[2].keyword, <<"8">>, <<"5", "5">>, <<"2">>,
             <<"+", "1", "5">>, <<"-", "2">>, <<"OK">> >>

\* ------------------------------------------------------------------------
\* Properties of the token request and of the order of the requests
\* ------------------------------------------------------------------------

BlankCredentials == Trim(clientId) = <<>> \/ Trim(clientSecret) = <<>>

C17_OneRequestInFlight ==
    /\ [](RunStarted =>
              /\ isSearching <=> RunInFlight
              /\ Len(requests) - Len(responses) \in {0, 1}
              /\ Len(requests) <= Len(search.keywordList)
              /\ \A j \in 1..Len(requests) :
                     requests[j].keyword = search.keywordList[j]
              /\ search.pc \in {"fetch", "json", "aborted"} =>
                     Len(requests) = Len(results) + 1
              /\ search.pc \in {"delay", "done"} =>
                     Len(requests) = Len(results))
    /\ [][runs' # runs =>
              /\ ~isSearching
              /\ ~RunInFlight
              /\ Len(requests') = 1]_vars
    /\ [][(runs' = runs /\ requests' # requests) =>
              /\ requests' = Append(requests, requests'[Len(requests')])
              /\ Len(results') = Len(requests)
              /\ Len(responses') = Len(requests)]_vars

\* The second request of a second run has been sent after a failure of
\* the first keyword.
C17_Witness ==
    /\ runs = 2
    /\ search.pc = "fetch"
    /\ Len(requests) = 2
    /\ Len(results) = 1
    /\ HasError(results[1])
    /\ responses = <<"status">>

\* C18: within a run the throttling delay elapses between the completion
\* of every keyword and the request of the next one, whether the keyword
\* succeeded or was recorded as failed: the next request is sent only by
\* the step that ends the delay.
C18_DelayBeforeEveryNextRequest ==
    [][(runs' = runs /\ Len(requests') = Len(requests) + 1) =>
           search.pc = "delay"]_vars

\* C19: within a run the snapshot starts empty and every update appends
\* one result and leaves the earlier ones as they were; when the next run
\* starts, the previous snapshot becomes exactly the last snapshot of the
\* run before, with nothing merged in from older runs.
C19_SnapshotGrowsAndSupersedes ==
    /\ [][runs' # runs =>
              /\ results' = <<>>
              /\ previousResults' = results]_vars
    /\ [][(runs' = runs /\ results' # results) =>
              /\ Len(results') = Len(results) + 1
              /\ SubSeq(results', 1, Len(results)) = results]_vars
    /\ [][runs' = runs => previousResults' = previousResults]_vars

\* The third run has recorded a result; the previous snapshot is the
\* second run's, which differs from the first run's.
C19_Witness ==
    /\ runs = 3
    /\ Len(results) = 1
    /\ Len(previousResults) = 2
    /\ search.previousResults # <<>>
    /\ search.previousResults # previousResults

\* ------------------------------------------------------------------------
\* Properties that follow from the code without being stated
\* ------------------------------------------------------------------------

\* C21: for every successful result a run can produce (count >= 0 and
\* estimate = min(100, round(count / 5))) the opportunity score lies in
\* 0..25, so the band above 50, the one with the colour of the highest
\* opportunity, is never reached.
C21_ScoreOfResultsAtMost25 ==
    \A j \in 1..Len(results) :
        ~HasError(results[j]) =>
            LET score == GetOpportunityScore(results[j])
            IN  /\ results[j].audiobooks >= 0
                /\ IsSome(score)
                /\ score[1] \in 0..25
                /\ ScoreColor(score[1]) # "#22c55e"

\* A count of 3: the estimate is 1 and the score 25, the highest there is.
C21_Witness ==
    /\ DataJustRead
    /\ ResultOfData.audiobooks = 3
    /\ ResultOfData.estimatedTrendsInterest = 1
    /\ GetOpportunityScore(ResultOfData) = Some(25)
    /\ ScoreColor(25) = "#f59e0b"

\* The positions in the snapshot the run compares against that hold the
\* keyword of the result just pushed.
PriorPositions ==
    {j \in 1..Len(search.previousResults) :
         search.previousResults[j].keyword = ResultOfData.keyword}

\* C22: when the snapshot a run compares against holds a failed result for
\* a keyword, the new successful result for that keyword has its trends
\* computed against the values of the failure: supplyTrend = count + 1
\* (count minus -1) and popularityTrend = avgPopularity (minus 0).  A
\* failed prior result is not treated as no prior result.
C22_TrendsAgainstFailedPrior ==
    (DataJustRead /\ PriorPositions # {}) =>
        LET first == CHOOSE j \in PriorPositions :
                         \A h \in PriorPositions : j <= h
            prior == search.previousResults[first]
        IN  IsSome(prior.error) =>
                /\ prior.audiobooks = FailedCount
                /\ ResultOfData.supplyTrend = Some(ResultOfData.audiobooks + 1)
                /\ ResultOfData.popularityTrend =
                       Some(ResultOfData.avgPopularity)

\* The third run reads 10 audiobooks of popularity 40 for a keyword that
\* failed in the snapshot it compares against: the trends are 11 and 40.
C22_Witness ==
    /\ DataJustRead
    /\ PriorPositions # {}
    /\ \A j \in PriorPositions : HasError(search.previousResults[j])
    /\ ResultOfData.audiobooks = 10
    /\ ResultOfData.supplyTrend = Some(11)
    /\ ResultOfData.popularityTrend = Some(40)

\* C23: if every search request is answered in the end and every delay
\* ends, every run that has started ends with the searching flag false,
\* either with all n keywords recorded or after a 401; the flag is true in
\* every state from the start of the run to that point.
C23_EveryRunEnds ==
    /\ [](RunStarted => (isSearching <=> RunInFlight))
    /\ [](search.pc = "done" => Len(results) = Len(search.keywordList))
    /\ [](search.pc = "aborted" =>
              Last(responses) = "401" /\ Len(results) < Len(search.keywordList))
    /\ isSearching ~> (~isSearching /\ search.pc \in {"done", "aborted"})
    /\ [][isSearching /\ ~isSearching' =>
              search'.pc \in {"done", "aborted"}]_vars

\* The second run has ended after a 401 on its second keyword.
C23_Witness ==
    /\ runs = 2
    /\ search.pc = "aborted"
    /\ ~isSearching
    /\ Len(search.keywordList) = 2
    /\ Len(results) = 1

\* C24: clearing the stored token ('Use different credentials') while a run
\* is in progress neither aborts nor alters the run: the click changes the
\* stored token and its status line only, every request of the run carries
\* the token stored when the run started, and the run still ends, with a
\* result for every keyword unless a 401 aborts it.
C24_ClearedTokenLeavesRunAlone ==
    /\ [][isSearching /\ accessToken' # accessToken =>
              /\ accessToken' = <<>>
              /\ UNCHANGED <<search, results, previousResults, requests,
                             responses, isSearching, progress, error,
                             showMatrix, runs>>]_vars
    /\ [][runs' # runs => requests'[1].token = accessToken]_vars
    /\ [](RunStarted =>
              \A j \in 1..Len(requests) : requests[j].token = requests[1].token)
    /\ [](search.pc = "done" /\ accessToken = <<>> =>
              Len(results) = Len(search.keywordList))
    /\ [](search.pc = "aborted" /\ accessToken = <<>> => Last(responses) = "401")
    /\ (isSearching /\ accessToken = <<>>) ~>
           (~isSearching /\ search.pc \in {"done", "aborted"})

\* The stored token is cleared, and the request of the second keyword of
\* the second run carries the token that run started with.
C24_Witness ==
    /\ runs = 2
    /\ search.pc = "fetch"
    /\ accessToken = <<>>
    /\ Len(requests) = 2
    /\ requests[2].token = <<"u">>

====
